---- MODULE Spec2Model ----
(***************************************************************************)
(* A state-machine model of eko-gc: the arena-branded, reference-counted   *)
(* pointer Gc (a wrapper of std::rc::Rc), the arena-branded cell RefCell   *)
(* (a wrapper of std::cell::RefCell) and its guards Ref / RefMut.          *)
(*                                                                         *)
(* An object (Obj) is one value given to RefCell::new or Gc::new.  It is   *)
(* either a plain integer pointee or a cell; a cell starts on the stack    *)
(* (a standalone RefCell) and may be moved into an Rc by Gc::new.  The     *)
(* client program is the environment: it holds external Gc handles and     *)
(* guards in a bounded number of local variables (slots).                  *)
(***************************************************************************)
EXTENDS Integers, FiniteSets, Sequences

\* ------------------------------------------------------------------ bounds
NObj == 2        \* objects the client creates in one run
NHandle == 3     \* Gc handles the client holds in local variables at one time
NGuard == 2      \* guards (Ref, RefMut) the client holds at one time

Obj == 1..NObj
Aid == {1, 2}    \* local variables holding an Arena
Brand == {1, 2}  \* the lifetimes 'gc
Val == {0, 1}    \* the integers stored
GuardKind == {"ref", "mut"}

\* std::cell::RefCell's BorrowFlag: UNUSED, a positive count of readers, or
\* a negative value while a writer holds the cell.
UNUSED == 0

\* A Gc: its Rc pointer (obj) and its brand 'gc.
HRec == [obj : Obj, brand : Brand]
NoHandle == [obj |-> 0, brand |-> 0]
\* A guard: its cell and its kind (Ref or RefMut).
GRec == [cell : Obj, kind : GuardKind]
NoCall == [op |-> "none", obj |-> 0]

VARIABLES
    arena,      \* arena[a]: the brand of the Arena in variable a, 0 if none
    loc,        \* loc[o]: "unused", "stack" (standalone cell), "heap" (in an Rc), "released"
    kind,       \* kind[o]: "int" (plain pointee) or "cell" (RefCell pointee)
    val,        \* val[o]: the integer stored in o
    flag,       \* flag[o]: the cell's BorrowFlag
    next,       \* next[o]: the Gc stored inside cell o (NoHandle if none)
    strong,     \* strong[o]: the Rc's strong count
    root,       \* history: root[o] is the Gc::new call the handles to o descend from
    handles,    \* handles[o][b]: how many local variables hold a Gc to o of brand b
    guards,     \* guards[o][k]: how many local variables hold a guard of kind k on o
    panicking,  \* TRUE while a panic unwinds (between panic and catch_unwind)
    failed,     \* history: the borrow / borrow_mut that panicked and has not been retried
    last        \* history: the last operation, its object and its outcome

vars == <<arena, loc, kind, val, flag, next, strong, root, handles, guards, panicking, failed, last>>

heapVars == <<loc, kind, val, flag, next, strong, root>>

\* ----------------------------------------------------------------- helpers
Min(S) == CHOOSE x \in S : \A y \in S : x <= y

RECURSIVE Sum(_, _)
Sum(f, S) == IF S = {} THEN 0 ELSE LET x == CHOOSE y \in S : TRUE IN f[x] + Sum(f, S \ {x})

FreeObjs == {o \in Obj : loc[o] = "unused"}
LiveHandles == {h \in HRec : handles[h.obj][h.brand] > 0}
LiveGuards == {g \in GRec : guards[g.cell][g.kind] > 0}
HandlesTo(o) == Sum(handles[o], Brand)
GuardsOn(o) == Sum(guards[o], GuardKind)
NumHandles == Sum([o \in Obj |-> HandlesTo(o)], Obj)
NumGuards == Sum([o \in Obj |-> GuardsOn(o)], Obj)

\* A guard on a cell in an Rc borrows the cell through one Gc variable, which
\* outlives it: of the variables holding a Gc to o, one is pinned while a
\* guard on o is alive.
Pinned(o) == IF GuardsOn(o) > 0 THEN 1 ELSE 0

\* The record of an operation: n is the number of storages it released.
Call(op, o, res) == [op |-> op, obj |-> o, res |-> res, retry |-> FALSE, n |-> 0]

TypeOK ==
    /\ arena \in [Aid -> Brand \cup {0}]
    /\ loc \in [Obj -> {"unused", "stack", "heap", "released"}]
    /\ kind \in [Obj -> {"int", "cell"}]
    /\ val \in [Obj -> Val]
    /\ flag \in [Obj -> -1..NGuard]
    /\ next \in [Obj -> HRec \cup {NoHandle}]
    /\ strong \in [Obj -> 0..(NHandle + NObj)]
    /\ root \in [Obj -> Obj \cup {0}]
    /\ handles \in [Obj -> [Brand -> 0..NHandle]]
    /\ guards \in [Obj -> [GuardKind -> 0..NGuard]]
    /\ NumHandles <= NHandle
    /\ NumGuards <= NGuard
    /\ panicking \in BOOLEAN
    /\ failed \in [op : {"none", "borrow", "borrow_mut"}, obj : Obj \cup {0}]

Init ==
    /\ arena = [a \in Aid |-> 0]
    /\ loc = [o \in Obj |-> "unused"]
    /\ kind = [o \in Obj |-> "int"]
    /\ val = [o \in Obj |-> 0]
    /\ flag = [o \in Obj |-> UNUSED]
    /\ next = [o \in Obj |-> NoHandle]
    /\ strong = [o \in Obj |-> 0]
    /\ root = [o \in Obj |-> 0]
    /\ handles = [o \in Obj |-> [b \in Brand |-> 0]]
    /\ guards = [o \in Obj |-> [k \in GuardKind |-> 0]]
    /\ panicking = FALSE
    /\ failed = NoCall
    /\ last = Call("init", 0, "Ok")

\* ------------------------------------------------------------------- Arena
\* Arena::new(): the arena holds no data; its brand is the lifetime parameter
\* 'gc of the returned type, which the signature leaves to the caller: a
\* lifetime already in use or the next fresh one.  The arenas fill the
\* client's variables in order.
ArenaNew(a, b) ==
    /\ ~panicking
    /\ arena[a] = 0
    /\ \A x \in Aid : x < a => arena[x] # 0
    /\ \A c \in Brand : c < b => \E x \in Aid : arena[x] = c
    /\ arena' = [arena EXCEPT ![a] = b]
    /\ last' = Call("arena_new", 0, "Ok")
    /\ failed' = NoCall
    /\ UNCHANGED <<heapVars, handles, guards, panicking>>

\* ----------------------------------------------------------------- RefCell
\* RefCell::new(&arena, data): a standalone cell, unborrowed.
RefCellNew(a, v) ==
    /\ ~panicking
    /\ arena[a] # 0
    /\ FreeObjs # {}
    /\ LET o == Min(FreeObjs) IN
        /\ loc' = [loc EXCEPT ![o] = "stack"]
        /\ kind' = [kind EXCEPT ![o] = "cell"]
        /\ val' = [val EXCEPT ![o] = v]
        /\ flag' = [flag EXCEPT ![o] = UNUSED]
        /\ last' = Call("ref_cell_new", o, "Ok")
    /\ failed' = NoCall
    /\ UNCHANGED <<arena, next, strong, root, handles, guards, panicking>>

\* The cells the client can name: a standalone cell directly (via = NoHandle),
\* a cell in an Rc through a live Gc to it (Deref for Gc).
Reach(o, via) ==
    /\ kind[o] = "cell"
    /\ \/ via = NoHandle /\ loc[o] = "stack"
       \/ via \in LiveHandles /\ via.obj = o /\ loc[o] = "heap"

\* Mutants of BorrowGranted: a borrow that is always granted; a borrow that is
\* granted only to the first reader.
BorrowGrantedAlways(o) == TRUE
BorrowGrantedFirstOnly(o) == flag[o] = UNUSED

\* std::cell::RefCell::borrow as called at lib.rs:133: BorrowRef::new adds one
\* to the flag and grants the borrow when the result is a reader count.
BorrowGranted(o) == flag[o] + 1 > UNUSED

\* RefCell::borrow(&self): a Ref, or a panic that leaves the cell as it was.
Borrow(o, via) ==
    /\ ~panicking
    /\ Reach(o, via)
    /\ IF BorrowGranted(o)
       THEN /\ NumGuards < NGuard
            /\ flag' = [flag EXCEPT ![o] = @ + 1]
            /\ guards' = [guards EXCEPT ![o]["ref"] = @ + 1]
            /\ last' = [Call("borrow", o, "Ok") EXCEPT !.retry = (failed = [op |-> "borrow", obj |-> o])]
            /\ failed' = NoCall
            /\ UNCHANGED panicking
       ELSE /\ panicking' = TRUE
            /\ last' = Call("borrow", o, "Panic")
            /\ failed' = [op |-> "borrow", obj |-> o]
            /\ UNCHANGED <<flag, guards>>
    /\ UNCHANGED <<arena, loc, kind, val, next, strong, root, handles>>

\* Mutant of BorrowMutGranted: only a writer refuses the borrow.
BorrowMutGrantedOverReaders(o) == flag[o] >= UNUSED

\* std::cell::RefCell::borrow_mut as called at lib.rs:140: BorrowRefMut::new
\* grants the borrow only when the flag is UNUSED.
BorrowMutGranted(o) == flag[o] = UNUSED

\* RefCell::borrow_mut(&self): a RefMut, or a panic that leaves the cell as it was.
BorrowMut(o, via) ==
    /\ ~panicking
    /\ Reach(o, via)
    /\ IF BorrowMutGranted(o)
       THEN /\ NumGuards < NGuard
            /\ flag' = [flag EXCEPT ![o] = UNUSED - 1]
            /\ guards' = [guards EXCEPT ![o]["mut"] = @ + 1]
            /\ last' = [Call("borrow_mut", o, "Ok") EXCEPT !.retry = (failed = [op |-> "borrow_mut", obj |-> o])]
            /\ failed' = NoCall
            /\ UNCHANGED panicking
       ELSE /\ panicking' = TRUE
            /\ last' = Call("borrow_mut", o, "Panic")
            /\ failed' = [op |-> "borrow_mut", obj |-> o]
            /\ UNCHANGED <<flag, guards>>
    /\ UNCHANGED <<arena, loc, kind, val, next, strong, root, handles>>

\* Mutant of Released: a RefMut is released like a Ref.
ReleasedAsRef(f, k) == f - 1

\* The flag after a guard's drop: std's BorrowRef::drop takes one reader off,
\* BorrowRefMut::drop gives the writer's unit back.
Released(f, k) == IF k = "ref" THEN f - 1 ELSE f + 1

\* Drop of a Ref or a RefMut (the fields `data` of lib.rs:149 and lib.rs:162);
\* it also runs while a panic unwinds.
DropGuard(g) ==
    /\ g \in LiveGuards
    /\ flag' = [flag EXCEPT ![g.cell] = Released(@, g.kind)]
    /\ guards' = [guards EXCEPT ![g.cell][g.kind] = @ - 1]
    /\ last' = Call(IF g.kind = "ref" THEN "drop_ref" ELSE "drop_ref_mut", g.cell, "Ok")
    /\ UNCHANGED <<arena, loc, kind, val, next, strong, root, handles, panicking, failed>>

\* DerefMut for RefMut: a write of the integer through an exclusive guard.
Write(g, v) ==
    /\ ~panicking
    /\ g \in LiveGuards
    /\ g.kind = "mut"
    /\ val' = [val EXCEPT ![g.cell] = v]
    /\ last' = Call("write", g.cell, "Ok")
    /\ failed' = NoCall
    /\ UNCHANGED <<arena, loc, kind, flag, next, strong, root, handles, guards, panicking>>

\* Deref for Ref / RefMut: the integer read through a guard.
GuardDeref(g) == val[g.cell]

\* Mutant of TryBorrow: borrow() in the place of try_borrow().
TryBorrowUnwrap(o) == IF BorrowGranted(o) THEN "Ok" ELSE "Panic"

\* std::cell::RefCell::try_borrow as called at lib.rs:109: the test of
\* borrow, with an Err in the place of the panic.
TryBorrow(o) == IF BorrowGranted(o) THEN "Ok" ELSE "Err"

\* Mutant of TempBorrow: the Ref of try_borrow is never dropped.
TempBorrowLeaked(f) == f + 1

\* The flag after the Ok arm of fmt: the Ref that try_borrow gave is a
\* temporary of the match, dropped when the arm is left.
TempBorrow(f) == Released(f + 1, "ref")

\* What fmt writes: the struct with the integer (lib.rs:110), or with the
\* placeholder (lib.rs:111-124).
DebugStruct(v) == IF v = 0 THEN "RefCell { value: 0 }" ELSE "RefCell { value: 1 }"
Placeholder == "RefCell { value: <borrowed> }"
Rendered(r, v) == IF r = "Ok" THEN DebugStruct(v) ELSE IF r = "Err" THEN Placeholder ELSE "Panic"

\* Debug for RefCell (and for Gc, which hands fmt to its pointee): fmt tries
\* a shared borrow and writes the value, or the placeholder.
Debug(o, via) ==
    /\ ~panicking
    /\ Reach(o, via)
    /\ LET r == TryBorrow(o) IN
        /\ flag' = [flag EXCEPT ![o] = IF r = "Ok" THEN TempBorrow(@) ELSE @]
        /\ last' = Call("debug", o, Rendered(r, val[o]))
        /\ panicking' = (r = "Panic")
    /\ failed' = NoCall
    /\ UNCHANGED <<arena, loc, kind, val, next, strong, root, handles, guards>>

\* std::panic::catch_unwind in the client: the unwinding stops.
CatchUnwind ==
    /\ panicking
    /\ panicking' = FALSE
    /\ last' = Call("catch_unwind", 0, "Ok")
    /\ UNCHANGED <<arena, heapVars, handles, guards, failed>>

\* ---------------------------------------------------------------------- Gc
\* Mutant of GcNewInt: the Rc holds the type's default, not the data given.
GcNewIntDefault(a, v) ==
    /\ ~panicking
    /\ arena[a] # 0
    /\ FreeObjs # {}
    /\ NumHandles < NHandle
    /\ LET o == Min(FreeObjs) IN
        /\ loc' = [loc EXCEPT ![o] = "heap"]
        /\ kind' = [kind EXCEPT ![o] = "int"]
        /\ val' = [val EXCEPT ![o] = 0]
        /\ strong' = [strong EXCEPT ![o] = 1]
        /\ root' = [root EXCEPT ![o] = o]
        /\ handles' = [handles EXCEPT ![o][arena[a]] = @ + 1]
        /\ last' = Call("gc_new", o, "Ok")
    /\ failed' = NoCall
    /\ UNCHANGED <<arena, flag, next, guards, panicking>>

\* Gc::new(&arena, data) with an integer pointee: Rc::new gives a fresh
\* allocation with a strong count of one; the handle takes the arena's brand.
GcNewInt(a, v) ==
    /\ ~panicking
    /\ arena[a] # 0
    /\ FreeObjs # {}
    /\ NumHandles < NHandle
    /\ LET o == Min(FreeObjs) IN
        /\ loc' = [loc EXCEPT ![o] = "heap"]
        /\ kind' = [kind EXCEPT ![o] = "int"]
        /\ val' = [val EXCEPT ![o] = v]
        /\ strong' = [strong EXCEPT ![o] = 1]
        /\ root' = [root EXCEPT ![o] = o]
        /\ handles' = [handles EXCEPT ![o][arena[a]] = @ + 1]
        /\ last' = Call("gc_new", o, "Ok")
    /\ failed' = NoCall
    /\ UNCHANGED <<arena, flag, next, guards, panicking>>

\* Gc::new(&arena, cell): a standalone RefCell is moved into the Rc; a moved
\* value has no borrow outstanding.
GcNewCell(a, o) ==
    /\ ~panicking
    /\ arena[a] # 0
    /\ loc[o] = "stack"
    /\ GuardsOn(o) = 0
    /\ NumHandles < NHandle
    /\ loc' = [loc EXCEPT ![o] = "heap"]
    /\ strong' = [strong EXCEPT ![o] = 1]
    /\ root' = [root EXCEPT ![o] = o]
    /\ handles' = [handles EXCEPT ![o][arena[a]] = @ + 1]
    /\ last' = Call("gc_new", o, "Ok")
    /\ failed' = NoCall
    /\ UNCHANGED <<arena, kind, val, flag, next, guards, panicking>>

\* Mutant of PtrEq: the pointees are compared, not the pointers.
PtrEqByValue(a, b) == val[a.obj] = val[b.obj]

\* Gc::ptr_eq: Rc::ptr_eq of the two data fields.
PtrEq(a, b) == a.obj = b.obj

\* The pointee's own operations (i32): ==, cmp, partial_cmp, and hash, which
\* writes the integer into the hasher (the state st is what was written).
IntEq(x, y) == x = y
IntCmp(x, y) == IF x < y THEN "Less" ELSE IF x = y THEN "Equal" ELSE "Greater"
IntPartialCmp(x, y) == <<"Some", IntCmp(x, y)>>
IntHash(x, st) == Append(st, x)

\* Mutant of GcEq: the pointers are compared, not the pointees.
GcEqByPtr(a, b) == a.obj = b.obj

\* PartialEq for Gc: Rc's == compares the pointees.
GcEq(a, b) == IntEq(val[a.obj], val[b.obj])

\* PartialOrd, Ord and Hash for Gc: each hands its data fields to Rc's
\* implementation, which hands the pointees to theirs.
GcPartialCmp(a, b) == IntPartialCmp(val[a.obj], val[b.obj])
GcCmp(a, b) == IntCmp(val[a.obj], val[b.obj])
GcHash(a, st) == IntHash(val[a.obj], st)

\* Deref for Gc with an integer pointee.
GcDeref(h) == val[h.obj]

\* Mutant of GcClone: the pointee is copied into a new Rc (Rc::new of a clone
\* of the pointee) instead of the pointer.
GcCloneCopy(h) ==
    /\ ~panicking
    /\ h \in LiveHandles
    /\ NumHandles < NHandle
    /\ FreeObjs # {}
    /\ LET o == Min(FreeObjs) IN
        /\ loc' = [loc EXCEPT ![o] = "heap"]
        /\ kind' = [kind EXCEPT ![o] = kind[h.obj]]
        /\ val' = [val EXCEPT ![o] = val[h.obj]]
        /\ strong' = [strong EXCEPT ![o] = 1]
        /\ root' = [root EXCEPT ![o] = root[h.obj]]
        /\ handles' = [handles EXCEPT ![o][h.brand] = @ + 1]
    /\ last' = Call("gc_clone", h.obj, "Ok")
    /\ failed' = NoCall
    /\ UNCHANGED <<arena, flag, next, guards, panicking>>

\* Mutant of GcClone: the pointer is copied and the strong count is left alone.
GcCloneNoCount(h) ==
    /\ ~panicking
    /\ h \in LiveHandles
    /\ NumHandles < NHandle
    /\ handles' = [handles EXCEPT ![h.obj][h.brand] = @ + 1]
    /\ last' = Call("gc_clone", h.obj, "Ok")
    /\ failed' = NoCall
    /\ UNCHANGED <<arena, loc, kind, val, flag, next, strong, root, guards, panicking>>

\* Mutant of GcClone: the strong count goes up by two.
GcCloneTwice(h) ==
    /\ ~panicking
    /\ h \in LiveHandles
    /\ NumHandles < NHandle
    /\ strong' = [strong EXCEPT ![h.obj] = @ + 2]
    /\ handles' = [handles EXCEPT ![h.obj][h.brand] = @ + 1]
    /\ last' = Call("gc_clone", h.obj, "Ok")
    /\ failed' = NoCall
    /\ UNCHANGED <<arena, loc, kind, val, flag, next, root, guards, panicking>>

\* Clone for Gc: Rc::clone adds one to the strong count and returns the same
\* pointer; the new handle is of the same type Gc<'gc, T>.
GcClone(h) ==
    /\ ~panicking
    /\ h \in LiveHandles
    /\ NumHandles < NHandle
    /\ strong' = [strong EXCEPT ![h.obj] = @ + 1]
    /\ handles' = [handles EXCEPT ![h.obj][h.brand] = @ + 1]
    /\ last' = Call("gc_clone", h.obj, "Ok")
    /\ failed' = NoCall
    /\ UNCHANGED <<arena, loc, kind, val, flag, next, root, guards, panicking>>

\* Mutant of RcFreed: the storage is released with one handle left.
RcFreedEarly(n) == n <= 1

\* Mutant of RcDrop: the pointee is released without being dropped, so the Gc
\* it holds is not dropped.
RcDropShallow(H, o) ==
    LET n == H.strong[o] - 1 IN
    IF n # 0
    THEN [H EXCEPT !.strong[o] = n]
    ELSE [strong |-> [H.strong EXCEPT ![o] = n],
          loc |-> [H.loc EXCEPT ![o] = "released"],
          next |-> [H.next EXCEPT ![o] = NoHandle]]

\* Drop of the Rc in a Gc's data field (lib.rs:25), on the heap H = [strong,
\* loc, next]: the strong count goes down by one; at zero the pointee is
\* dropped, which drops the Gc it holds, and the storage is released.
RcFreed(n) == n = 0

RECURSIVE RcDrop(_, _)
RcDrop(H, o) ==
    LET n == H.strong[o] - 1 IN
    IF ~RcFreed(n)
    THEN [H EXCEPT !.strong[o] = n]
    ELSE LET H1 == [strong |-> [H.strong EXCEPT ![o] = n],
                    loc |-> [H.loc EXCEPT ![o] = "released"],
                    next |-> [H.next EXCEPT ![o] = NoHandle]]
         IN IF H.next[o] # NoHandle THEN RcDrop(H1, H.next[o].obj) ELSE H1

Heap == [strong |-> strong, loc |-> loc, next |-> next]

\* The storages released between lc and lc2.
NumReleased(lc, lc2) == Cardinality({o \in Obj : lc[o] = "heap" /\ lc2[o] = "released"})

\* Released storage holds no value: f with the entries of the objects that
\* are released in lc set to d.
Scrub(f, lc, d) == [o \in Obj |-> IF lc[o] = "released" THEN d ELSE f[o]]

\* Drop of a Gc in a local variable; a variable a guard borrows through
\* outlives the guard.  It also runs while a panic unwinds.
DropGc(h) ==
    /\ h \in LiveHandles
    /\ HandlesTo(h.obj) > Pinned(h.obj)
    /\ LET H == RcDrop(Heap, h.obj) IN
        /\ strong' = H.strong
        /\ loc' = H.loc
        /\ next' = H.next
    /\ val' = Scrub(val, loc', 0)
    /\ kind' = Scrub(kind, loc', "int")
    /\ handles' = [handles EXCEPT ![h.obj][h.brand] = @ - 1]
    /\ last' = [Call("drop_gc", h.obj, "Ok") EXCEPT !.n = NumReleased(loc, loc')]
    /\ UNCHANGED <<arena, flag, root, guards, panicking, failed>>

\* Drop of a standalone RefCell (its owner goes out of scope); every guard on
\* it has been dropped before.  It also runs while a panic unwinds.
DropCell(o) ==
    /\ loc[o] = "stack"
    /\ GuardsOn(o) = 0
    /\ loc' = [loc EXCEPT ![o] = "released"]
    /\ val' = Scrub(val, loc', 0)
    /\ kind' = Scrub(kind, loc', "int")
    /\ last' = Call("drop_cell", o, "Ok")
    /\ UNCHANGED <<arena, flag, next, strong, root, handles, guards, panicking, failed>>

\* DerefMut for RefMut on a pointee that holds a Gc (node.next = Some(gc)):
\* the Gc h is moved out of a local variable into the cell behind guard g,
\* and the Gc the cell held before is dropped.  The cell is in an Rc, and h
\* is of the type of the Gc it is borrowed through.
SetNext(g, h) ==
    /\ ~panicking
    /\ g \in LiveGuards
    /\ g.kind = "mut"
    /\ loc[g.cell] = "heap"
    /\ h \in LiveHandles
    /\ HandlesTo(h.obj) > Pinned(h.obj)
    /\ kind[h.obj] = "cell"
    /\ handles[g.cell][h.brand] > 0
    /\ LET o == g.cell
           old == next[o]
           H0 == [Heap EXCEPT !.next[o] = h]
           H == IF old # NoHandle THEN RcDrop(H0, old.obj) ELSE H0
       IN /\ strong' = H.strong
          /\ loc' = H.loc
          /\ next' = H.next
          /\ last' = [Call("set_next", o, "Ok") EXCEPT !.n = NumReleased(loc, H.loc)]
    /\ val' = Scrub(val, loc', 0)
    /\ kind' = Scrub(kind, loc', "int")
    /\ handles' = [handles EXCEPT ![h.obj][h.brand] = @ - 1]
    /\ failed' = NoCall
    /\ UNCHANGED <<arena, flag, root, guards, panicking>>

\* ------------------------------------------------------------ specification
Next ==
    \/ \E a \in Aid, b \in Brand : ArenaNew(a, b)
    \/ \E a \in Aid, v \in Val : RefCellNew(a, v)
    \/ \E a \in Aid, v \in Val : GcNewInt(a, v)
    \/ \E a \in Aid, o \in Obj : GcNewCell(a, o)
    \/ \E h \in HRec : GcClone(h)
    \/ \E h \in HRec : DropGc(h)
    \/ \E o \in Obj : DropCell(o)
    \/ \E o \in Obj, via \in HRec \cup {NoHandle} : Borrow(o, via)
    \/ \E o \in Obj, via \in HRec \cup {NoHandle} : BorrowMut(o, via)
    \/ \E o \in Obj, via \in HRec \cup {NoHandle} : Debug(o, via)
    \/ \E g \in GRec : DropGuard(g)
    \/ \E g \in GRec, v \in Val : Write(g, v)
    \/ \E g \in GRec, h \in HRec : SetNext(g, h)
    \/ CatchUnwind

Spec == Init /\ [][Next]_vars

\* ------------------------------------------------------------------ claims
Cells == {o \in Obj : kind[o] = "cell" /\ loc[o] \in {"stack", "heap"}}
Vias == HRec \cup {NoHandle}
\* The call is refused: an exclusive guard is out (borrow), any guard is out
\* (borrow_mut).
BorrowConflict(o) == guards[o]["mut"] > 0
BorrowMutConflict(o) == GuardsOn(o) > 0
\* A refused call: it panics and leaves the cells, the pointees and the
\* client's guards and handles as they were.
Refused == panicking' /\ last'.res = "Panic" /\ UNCHANGED <<arena, heapVars, handles, guards>>

\* C1: in every reachable state a cell has either no exclusive guard and any
\* number of shared guards outstanding, or exactly one exclusive guard and no
\* shared guard.
C1_BorrowDiscipline ==
    \A o \in Obj :
        \/ guards[o]["mut"] = 0 /\ guards[o]["ref"] >= 0
        \/ guards[o]["mut"] = 1 /\ guards[o]["ref"] = 0

\* C1 witness: a cell in an Rc with two handles is exclusively borrowed while
\* another cell is shared-borrowed.
C1_Witness ==
    \E o \in Cells, p \in Cells :
        /\ loc[o] = "heap" /\ HandlesTo(o) >= 2 /\ guards[o]["mut"] = 1
        /\ guards[p]["ref"] = 1

\* C2: borrow_mut panics whenever a guard on the cell is outstanding, leaving
\* everything as it was; otherwise it marks the cell exclusively borrowed and
\* returns a RefMut.  So the call that was refused is granted once the
\* guards that refused it are dropped.
C2_BorrowMut ==
    [][\A o \in Obj, via \in Vias :
        BorrowMut(o, via) =>
            IF BorrowMutConflict(o)
            THEN Refused
            ELSE /\ last'.res = "Ok" /\ ~panicking'
                 /\ flag'[o] < UNUSED
                 /\ guards'[o]["mut"] = 1 /\ guards'[o]["ref"] = 0]_vars

\* C2 witness: a borrow_mut that was refused is granted on the retry.
C2_Witness == last.op = "borrow_mut" /\ last.res = "Ok" /\ last.retry

\* C3: borrow panics if and only if the cell is exclusively borrowed;
\* otherwise it is granted and the shared count goes up by exactly one.
C3_Borrow ==
    [][\A o \in Obj, via \in Vias :
        Borrow(o, via) =>
            IF BorrowConflict(o)
            THEN Refused
            ELSE /\ last'.res = "Ok" /\ ~panicking'
                 /\ flag'[o] = flag[o] + 1
                 /\ guards'[o]["ref"] = guards[o]["ref"] + 1
                 /\ guards'[o]["mut"] = 0]_vars

\* C3 witness: a borrow is granted on a cell that is already shared-borrowed,
\* so two shared guards are alive.
C3_Witness == last.op = "borrow" /\ last.res = "Ok" /\ guards[last.obj]["ref"] >= 2

\* C4: the drop of a guard releases exactly what the guard was granted (one
\* reader less, or the exclusive state cleared) and changes nothing else; the
\* flag always counts the guards outstanding, so with every guard dropped the
\* cell is unborrowed and both borrow and borrow_mut are granted.
C4_GuardDrop ==
    /\ [](\A o \in Cells :
            /\ flag[o] = guards[o]["ref"] - guards[o]["mut"]
            /\ GuardsOn(o) = 0 => flag[o] = UNUSED /\ BorrowGranted(o) /\ BorrowMutGranted(o))
    /\ [][\A g \in GRec :
            DropGuard(g) =>
                /\ flag'[g.cell] = (IF g.kind = "ref" THEN flag[g.cell] - 1 ELSE UNUSED)
                /\ \A o \in Obj \ {g.cell} : flag'[o] = flag[o]
                /\ UNCHANGED <<arena, loc, kind, val, next, strong, handles, panicking>>]_vars

\* C4 witness: a guard has been dropped, the cell has no guard left and is
\* unborrowed.
C4_Witness ==
    /\ last.op \in {"drop_ref", "drop_ref_mut"}
    /\ last.obj \in Cells
    /\ GuardsOn(last.obj) = 0
    /\ flag[last.obj] = UNUSED

\* C5 as stated: a refused borrow / borrow_mut comes back to the caller as an
\* error value, not as a fault, and leaves the cell as it was.
C5_Original ==
    [][\A o \in Obj, via \in Vias :
        /\ (Borrow(o, via) /\ BorrowConflict(o)) => last'.res = "Err" /\ ~panicking' /\ UNCHANGED <<flag, val>>
        /\ (BorrowMut(o, via) /\ BorrowMutConflict(o)) => last'.res = "Err" /\ ~panicking' /\ UNCHANGED <<flag, val>>]_vars

\* C5 amended: a refused borrow / borrow_mut panics in the caller at once
\* (no error value is returned, nothing waits or retries), and leaves the
\* cell's borrow state and value as they were.
C5_Amended ==
    [][\A o \in Obj, via \in Vias :
        /\ (Borrow(o, via) /\ BorrowConflict(o)) => Refused
        /\ (BorrowMut(o, via) /\ BorrowMutConflict(o)) => Refused]_vars

\* C5 witness: a borrow on an exclusively borrowed cell has panicked.
C5_Witness ==
    /\ panicking /\ last.op = "borrow" /\ last.res = "Panic"
    /\ guards[last.obj]["mut"] = 1 /\ flag[last.obj] < UNUSED

\* The Gc stored inside live pointees that point to o, and the number of
\* handles to o, in local variables and in pointees.
InnerTo(o) == {p \in Obj : loc[p] \in {"stack", "heap"} /\ next[p].obj = o}
Refs(o) == HandlesTo(o) + Cardinality(InnerTo(o))
\* The objects that were given to Gc::new.
Allocated == {o \in Obj : root[o] # 0}

\* C6: what is written through an exclusive guard on a cell in an Rc is what
\* every handle that descends from the same Gc::new (the original, its clones,
\* their clones) reads afterwards: the handles of one descent always read the
\* same value.
C6_Aliasing ==
    /\ [](\A a \in LiveHandles, b \in LiveHandles :
            root[a.obj] = root[b.obj] => GcDeref(a) = GcDeref(b))
    /\ [][\A g \in GRec, v \in Val :
            (Write(g, v) /\ loc[g.cell] = "heap") =>
                \A h \in HRec :
                    (handles'[h.obj][h.brand] > 0 /\ root'[h.obj] = root[g.cell]) => val'[h.obj] = v]_vars

\* C6 witness: 1 has been written through an exclusive guard to a cell that
\* three handles alias (a clone of a clone exists).
C6_Witness ==
    /\ last.op = "write" /\ loc[last.obj] = "heap"
    /\ HandlesTo(last.obj) >= 3
    /\ val[last.obj] = 1

\* C7: the storage behind a Gc is released exactly when its last handle is
\* dropped: the strong count is the number of handles, a storage with a handle
\* left is not released (every live handle dereferences to its pointee), and
\* a storage with no handle left is released.
C7_ReleaseAtLastDrop ==
    /\ \A o \in Allocated :
        /\ Refs(o) > 0 => loc[o] = "heap" /\ strong[o] = Refs(o)
        /\ Refs(o) = 0 => loc[o] = "released"
    /\ \A h \in LiveHandles : loc[h.obj] = "heap" /\ GcDeref(h) \in Val

\* C7 witness: one of two storages has just been released by the drop of its
\* last handle while the other, with a handle left, has not.
C7_Witness ==
    \E o \in Allocated, p \in Allocated :
        /\ last.op = "drop_gc" /\ last.obj = o
        /\ loc[o] = "released"
        /\ loc[p] = "heap" /\ HandlesTo(p) >= 1

\* Two nodes that hold a Gc to each other.
Cycle(a, b) ==
    /\ a # b
    /\ loc[a] = "heap" /\ loc[b] = "heap"
    /\ next[a].obj = b /\ next[b].obj = a

\* C8: the drop of a handle to a node of a two-node cycle does not panic, and
\* nothing but an assignment to a node's next ends the cycle: with every
\* external handle dropped both strong counts stay above zero and neither
\* storage is ever released.
C8_CycleLeaks ==
    /\ [](\A a \in Obj, b \in Obj : Cycle(a, b) => strong[a] > 0 /\ strong[b] > 0)
    /\ [][\A a \in Obj, b \in Obj :
            Cycle(a, b) =>
                /\ last'.op = "drop_gc" => last'.res = "Ok" /\ panicking' = panicking
                /\ last'.op # "set_next" =>
                    /\ Cycle(a, b)'
                    /\ strong'[a] > 0 /\ strong'[b] > 0]_vars

\* C8 witness: every external handle to the two nodes of a cycle has been dropped.
C8_Witness ==
    \E a \in Obj, b \in Obj :
        /\ Cycle(a, b)
        /\ HandlesTo(a) = 0 /\ HandlesTo(b) = 0
        /\ last.op = "drop_gc"

\* C9: Gc::clone never fails, adds exactly one to the strong count of its
\* storage, returns a handle to the same storage under the same brand, and
\* changes nothing else.
C9_Clone ==
    [][\A h \in HRec :
        GcClone(h) =>
            /\ last'.res = "Ok" /\ ~panicking'
            /\ strong'[h.obj] = strong[h.obj] + 1
            /\ \A o \in Obj \ {h.obj} : strong'[o] = strong[o]
            /\ handles'[h.obj][h.brand] = handles[h.obj][h.brand] + 1
            /\ \A x \in HRec \ {h} : handles'[x.obj][x.brand] = handles[x.obj][x.brand]
            /\ UNCHANGED <<arena, loc, kind, val, flag, next, root, guards>>]_vars

\* C9 witness: a handle to a cell has been cloned while the cell is borrowed.
C9_Witness ==
    /\ last.op = "gc_clone" /\ last.res = "Ok"
    /\ flag[last.obj] # UNUSED
    /\ strong[last.obj] >= 2

\* C10: ptr_eq is true exactly for two handles that descend from the same
\* Gc::new; for handles from two Gc::new calls whose pointees are equal it is
\* false while == is true.
C10_PtrEq ==
    \A a \in LiveHandles, b \in LiveHandles :
        /\ PtrEq(a, b) <=> root[a.obj] = root[b.obj]
        /\ (kind[a.obj] = "int" /\ kind[b.obj] = "int" /\ root[a.obj] # root[b.obj]
                /\ GcDeref(a) = GcDeref(b))
            => ~PtrEq(a, b) /\ GcEq(a, b)

\* C10 witness: two Gc::new calls with equal integers, one of the handles cloned.
C10_Witness ==
    \E a \in LiveHandles, b \in LiveHandles :
        /\ kind[a.obj] = "int" /\ kind[b.obj] = "int"
        /\ root[a.obj] # root[b.obj]
        /\ GcDeref(a) = GcDeref(b)
        /\ handles[a.obj][a.brand] >= 2

\* The handles whose pointee is an integer.
IntHandles == {h \in LiveHandles : kind[h.obj] = "int"}

\* C11: for any two handles a and b of one type with integer pointees x and
\* y, a == b, a.partial_cmp(b), a.cmp(b) and hash(a) are x == y,
\* x.partial_cmp(y), x.cmp(y) and hash(x); handles with equal pointees give
\* the same results whichever storage they point to.
C11_Forwarding ==
    \A a, b \in IntHandles :
        a.brand = b.brand =>
            /\ GcEq(a, b) = IntEq(GcDeref(a), GcDeref(b))
            /\ GcPartialCmp(a, b) = IntPartialCmp(GcDeref(a), GcDeref(b))
            /\ GcCmp(a, b) = IntCmp(GcDeref(a), GcDeref(b))
            /\ GcHash(a, <<>>) = IntHash(GcDeref(a), <<>>)
            /\ GcDeref(a) = GcDeref(b) =>
                    /\ GcEq(a, b) /\ GcEq(a, a) /\ GcEq(b, b)
                    /\ GcCmp(a, b) = "Equal"
                    /\ GcPartialCmp(a, b) = GcPartialCmp(a, a)
                    /\ GcHash(a, <<>>) = GcHash(b, <<>>)
            /\ GcDeref(a) < GcDeref(b) => ~GcEq(a, b) /\ GcCmp(a, b) = "Less" /\ GcCmp(b, a) = "Greater"

\* C11 witness: two handles to different storages whose pointees are equal:
\* they are ==, though not ptr_eq.
C11_Witness ==
    \E a, b \in IntHandles :
        /\ a.brand = b.brand /\ a.obj # b.obj
        /\ GcDeref(a) = 1 /\ GcDeref(b) = 1
        /\ GcEq(a, b) /\ ~PtrEq(a, b)

\* C12: the handle returned by Gc::new(A, v) dereferences to v, and no
\* operation other than a write through an exclusive guard changes what a
\* handle that stays alive dereferences to; a clone dereferences to what its
\* original does.
C12_NewThenDeref ==
    [][/\ \A a \in Aid, v \in Val, h \in HRec :
            GcNewInt(a, v) /\ h.obj = Min(FreeObjs) /\ h.brand = arena[a] =>
                /\ h \notin LiveHandles
                /\ h \in LiveHandles'
                /\ GcDeref(h)' = v
       /\ \A a \in Aid, h \in HRec :
            GcNewCell(a, h.obj) /\ h.brand = arena[a] =>
                h \in LiveHandles' /\ GcDeref(h)' = val[h.obj]
       /\ \A h \in HRec :
            GcClone(h) => /\ handles'[h.obj][h.brand] = handles[h.obj][h.brand] + 1
                          /\ GcDeref(h)' = GcDeref(h)
       /\ (~ \E g \in GRec, v \in Val : Write(g, v)) =>
            \A h \in LiveHandles \cap LiveHandles' : GcDeref(h)' = GcDeref(h)]_vars

\* C12 witness: a handle made by Gc::new with the integer 1 has been cloned,
\* and the handles dereference to 1.
C12_Witness ==
    /\ last.op = "gc_clone"
    /\ kind[last.obj] = "int"
    /\ \E h \in LiveHandles : h.obj = last.obj /\ handles[h.obj][h.brand] >= 2 /\ GcDeref(h) = 1

\* C13: Debug of a cell that is exclusively borrowed can always be called and
\* returns at once: it writes the placeholder in the place of the value, it
\* does not panic, and it takes no borrow.
C13_DebugWhileBorrowed ==
    /\ [](\A o \in Cells, via \in Vias :
            ~panicking /\ Reach(o, via) /\ guards[o]["mut"] > 0 => ENABLED Debug(o, via))
    /\ [][\A o \in Obj, via \in Vias :
            Debug(o, via) /\ guards[o]["mut"] > 0 =>
                /\ last'.res = Placeholder
                /\ last'.res # DebugStruct(val[o])
                /\ ~panicking'
                /\ flag'[o] = flag[o] /\ flag'[o] < UNUSED
                /\ guards' = guards]_vars

\* C13 witness: Debug has been called on a cell while a RefMut on it is
\* alive, and has written the placeholder.
C13_Witness ==
    /\ last.op = "debug"
    /\ guards[last.obj]["mut"] = 1
    /\ last.res = Placeholder
    /\ ~panicking


\* The variables that hold an arena.
LiveArenas == {a \in Aid : arena[a] # 0}

\* C14: Arena::new() succeeds whenever it is called, and no two live arenas
\* have the same brand.
C14_DistinctBrands ==
    /\ \A a \in Aid : ~panicking /\ arena[a] = 0 /\ (\A x \in Aid : x < a => arena[x] # 0) =>
            \E b \in Brand : ENABLED ArenaNew(a, b)
    /\ \A a1, a2 \in LiveArenas : a1 # a2 => arena[a1] # arena[a2]

\* C14, the state the code allows: two arenas are live and have one brand.
C14_SharedBrand ==
    /\ Cardinality(LiveArenas) = 2
    /\ \A a1, a2 \in LiveArenas : arena[a1] = arena[a2]

\* A value of type Gc<'gc, T> is accepted where the brand of the arena in
\* variable a is expected when 'gc is that arena's lifetime parameter.
Accepted(h, a) == h.brand = arena[a]

\* C15: a Gc made through one arena is not accepted where the brand of
\* another live arena is expected.
C15_OtherArenaRejected ==
    [][/\ \A a \in Aid, v \in Val, h \in HRec :
            GcNewInt(a, v) /\ h.obj = Min(FreeObjs) /\ h.brand = arena[a] =>
                \A a2 \in LiveArenas \ {a} : ~Accepted(h, a2)
       /\ \A a \in Aid, h \in HRec :
            GcNewCell(a, h.obj) /\ h.brand = arena[a] =>
                \A a2 \in LiveArenas \ {a} : ~Accepted(h, a2)]_vars

\* C15, the state the code allows: two Gcs made through two arenas are of
\* one type, and ptr_eq takes the two.
C15_CrossArena ==
    /\ C14_SharedBrand
    /\ \E h1, h2 \in LiveHandles :
            /\ h1.obj # h2.obj
            /\ \A a \in LiveArenas : Accepted(h1, a) /\ Accepted(h2, a)
            /\ ~PtrEq(h1, h2)


\* The storages the handles of the descent of o point to.
SameStorage(o) == {p \in Obj : root[p] # 0 /\ root[p] = root[o]}

\* C16: the borrow state is the storage's: with a guard alive on a cell in an
\* Rc, borrow_mut through any handle of the same descent is refused, and so
\* is borrow when the guard is exclusive; a clone or a drop of a handle
\* leaves every cell's flag and guards as they were.
C16_StateInStorage ==
    [][/\ \A h \in HRec :
            /\ (BorrowMut(h.obj, h) /\ \E p \in SameStorage(h.obj) : GuardsOn(p) > 0) => Refused
            /\ (Borrow(h.obj, h) /\ \E p \in SameStorage(h.obj) : guards[p]["mut"] > 0) => Refused
       /\ \A h \in HRec :
            GcClone(h) \/ DropGc(h) =>
                flag' = flag /\ guards' = guards]_vars

\* C16 witness: borrow_mut has been refused on a cell that two handles alias
\* and on which a guard is alive.
C16_Witness ==
    /\ last.op = "borrow_mut" /\ last.res = "Panic"
    /\ loc[last.obj] = "heap"
    /\ HandlesTo(last.obj) >= 2
    /\ guards[last.obj]["ref"] = 1

\* The pointee a pointee's Gc points to (0 if it holds none), the pointees n
\* steps along, and the pointees a pointee keeps alive.
Succ(o) == IF next[o] = NoHandle THEN 0 ELSE next[o].obj
RECURSIVE Walk(_, _)
Walk(o, n) == IF o = 0 \/ n = 0 THEN {} ELSE {o} \cup Walk(Succ(o), n - 1)
From(o) == Walk(Succ(o), NObj)
OnCycle(o) == o \in From(o)
KeptByCycle(o) == \E p \in Obj : OnCycle(p) /\ (o = p \/ o \in From(p))
Held(o) == HandlesTo(o) > 0 \/ \E p \in Obj : HandlesTo(p) > 0 /\ o \in From(p)

\* C17: the drop of the last handle to a pointee drops the Gc the pointee
\* holds; a storage that no cycle keeps is released exactly when no external
\* handle leads to it, so with no cycle and every external handle dropped
\* every storage is released, and a storage a live handle leads to is not.
C17_Cascade ==
    /\ [](\A o \in Allocated :
            ~KeptByCycle(o) => (loc[o] = "heap" <=> Held(o)) /\ (loc[o] = "released" <=> ~Held(o)))
    /\ [][\A h \in HRec :
            (DropGc(h) /\ strong[h.obj] = 1 /\ Succ(h.obj) # 0) =>
                /\ loc'[h.obj] = "released"
                /\ strong'[Succ(h.obj)] = strong[Succ(h.obj)] - 1
                /\ loc'[Succ(h.obj)] = (IF strong[Succ(h.obj)] = 1 THEN "released" ELSE "heap")]_vars

\* C17 witness: the drop of the last external handle has released two
\* storages, the pointee and the one its Gc was the last handle to.
C17_Witness ==
    /\ last.op = "drop_gc" /\ last.n = 2
    /\ NumHandles = 0
    /\ \A o \in Obj : loc[o] = "released"

\* C18: Debug changes nothing but what it writes: the flag, the value, the
\* guards and the handles are as before.  With no exclusive guard out it
\* writes the value, read through a shared borrow that is taken and given
\* back within the call; with an exclusive guard out it takes none.
C18_DebugFrame ==
    [][\A o \in Obj, via \in Vias :
        Debug(o, via) =>
            /\ UNCHANGED <<arena, heapVars, handles, guards, panicking>>
            /\ IF guards[o]["mut"] = 0
               THEN /\ TryBorrow(o) = "Ok"
                    /\ last'.res = DebugStruct(val[o])
                    /\ flag'[o] = guards[o]["ref"]
               ELSE /\ TryBorrow(o) = "Err"
                    /\ last'.res = Placeholder]_vars

\* C18 witness: Debug has been called on a cell with a Ref alive and has
\* written the value; the cell still has one reader.
C18_Witness ==
    /\ last.op = "debug"
    /\ guards[last.obj]["ref"] = 1
    /\ flag[last.obj] = 1
    /\ last.res = DebugStruct(1)
    /\ val[last.obj] = 1
====
